---------------------------- MODULE Spec2Model ----------------------------
(***************************************************************************)
(* Model of the tank battle arena server (src/server.js).                  *)
(*                                                                         *)
(* Numbers.  The server computes in IEEE doubles; the model computes in    *)
(* integers.  Positions are whole world units, velocities whole units per  *)
(* second, the clock whole milliseconds, angles whole degrees (Math.PI is  *)
(* 180).  Every product with a fraction (friction 0.92, dt in seconds,     *)
(* smoothing 0.2, cos/sin) is truncated toward zero.                       *)
(***************************************************************************)
EXTENDS Integers, Sequences, FiniteSets, TLC

VARIABLES
    now,             \* the value Date.now() returns
    lastUpdate,      \* let lastUpdate (line 329)
    players,         \* const players (line 58), in key insertion order
    bullets,         \* const bullets (line 59)
    lastRepairTime,  \* const lastRepairTime (line 60)
    hist,            \* history: per connected id, when things last happened
    env              \* the environment: which clock values and client requests

vars == <<now, lastUpdate, players, bullets, lastRepairTime, hist, env>>

---------------------------------------------------------------------------
(* GAME_CONFIG, lines 38-56 *)
ARENA_WIDTH == 1200
ARENA_HEIGHT == 700
TANK_RADIUS == 15
BULLET_RADIUS == 10
BULLET_SPEED == 35
BULLET_DAMAGE == 25
MAX_HEALTH == 100
TANK_SPEED == 30
\* TANK_BOOST_MULTIPLIER 1.8, in tenths
TANK_BOOST_MULTIPLIER_X10 == 18
\* FRICTION 0.92, in hundredths
FRICTION_X100 == 92
RESPAWN_TIME == 3000
BULLET_LIFETIME == 2000
REPAIR_AMOUNT == 10
REPAIR_COOLDOWN == 5000
\* this.shootCooldown, line 97
shootCooldown == 300
\* const cannonLength, line 153
cannonLength == 25
\* the score a kill adds, line 176
KILL_SCORE == 100
\* the margin around the arena a bullet may leave by, lines 249-250
BULLET_MARGIN == 50

---------------------------------------------------------------------------
(* Bounds of the model *)

\* most bullets in flight at once (the code has no cap)
MaxBullets == 2

\* socket ids
IDs == {"a", "b", "c"}

\* The boost field of a "move" payload, a JavaScript value: its type and the
\* number it counts as in a product, in tenths (true is 1, false is 0).
NoBoost == [kind |-> "undefined", val |-> 0]
BoostTrue == [kind |-> "boolean", val |-> 10]
BoostFalse == [kind |-> "boolean", val |-> 0]
BoostBy(tenths) == [kind |-> "number", val |-> tenths]

\* the payloads of "move" the clients send
Left == [dx |-> -1, dy |-> 0, boost |-> NoBoost]
Stay == [dx |-> 0, dy |-> 0, boost |-> BoostTrue]
Right == [dx |-> 1, dy |-> 0, boost |-> NoBoost]
RightBoost == [dx |-> 1, dy |-> 0, boost |-> BoostTrue]
DownTurbo == [dx |-> 0, dy |-> 1, boost |-> BoostBy(50)]

\* Environments.  Each fixes the values Date.now() takes (the server starts
\* at the first), the points Math.random() * (ARENA - 200) + 100 yields for
\* each id (lines 198-199, 273-274; an id with none never connects), and
\* which requests each client sends.

\* a fires at b, which stands in front of a's cannon without touching a,
\* until b dies and respawns
Duel ==
    [instants |-> {10000, 10300, 10600, 10900, 13900, 14000},
     spawn |-> [a |-> {<<100, 100>>}, b |-> {<<130, 100>>}, c |-> {}],
     moves |-> [a |-> {}, b |-> {Stay}, c |-> {}],
     shooters |-> {"a"},
     repairers |-> {"b"},
     leavers |-> {}]

\* the same two tanks; the clock stops at both sides of every cooldown
Timers ==
    [instants |-> {10000, 10100, 10400, 12000, 12100, 15000, 15100, 15200},
     spawn |-> [a |-> {<<100, 100>>}, b |-> {<<130, 100>>}, c |-> {}],
     moves |-> [a |-> {}, b |-> {Stay}, c |-> {}],
     shooters |-> {"a"},
     repairers |-> {"b"},
     leavers |-> {}]

\* a and b spawn overlapping and drive to the left wall
Collide ==
    [instants |-> {10000, 10100, 13900, 14000},
     spawn |-> [a |-> {<<100, 100>>}, b |-> {<<115, 100>>}, c |-> {}],
     moves |-> [a |-> {Left}, b |-> {Left}, c |-> {}],
     shooters |-> {},
     repairers |-> {},
     leavers |-> {}]

\* sessions come and go while bullets fly
Leave ==
    [instants |-> {10000, 10300, 10600, 10900},
     spawn |-> [a |-> {<<100, 100>>}, b |-> {<<130, 100>>}, c |-> {}],
     moves |-> [a |-> {}, b |-> {}, c |-> {}],
     shooters |-> {"a"},
     repairers |-> {"b"},
     leavers |-> {"a", "b"}]

\* b and c both stand in range of the point a's bullets start from
Trio ==
    [instants |-> {10000, 10300, 10600, 10900, 11200},
     spawn |-> [a |-> {<<100, 120>>}, b |-> {<<140, 135>>},
                c |-> {<<140, 105>>}],
     moves |-> [a |-> {}, b |-> {}, c |-> {}],
     shooters |-> {"a"},
     repairers |-> {},
     leavers |-> {}]

\* b stands where a's bullets are when they reach BULLET_LIFETIME
Stale ==
    [instants |-> {10000, 12000, 12100},
     spawn |-> [a |-> {<<100, 100>>}, b |-> {<<200, 100>>}, c |-> {}],
     moves |-> [a |-> {}, b |-> {}, c |-> {}],
     shooters |-> {"a"},
     repairers |-> {},
     leavers |-> {}]

\* one tank drives, with and without boost
Drive ==
    [instants |-> {10000, 10100, 10200, 10300},
     spawn |-> [a |-> {<<100, 100>>}, b |-> {}, c |-> {}],
     moves |-> [a |-> {Right, RightBoost, DownTurbo}, b |-> {}, c |-> {}],
     shooters |-> {},
     repairers |-> {},
     leavers |-> {}]

\* a fires at b, which overlaps it and steers into it all along
Wreck ==
    [instants |-> {10000, 10300, 10600, 10900, 11200},
     spawn |-> [a |-> {<<100, 100>>}, b |-> {<<125, 100>>}, c |-> {}],
     moves |-> [a |-> {}, b |-> {Left}, c |-> {}],
     shooters |-> {"a"},
     repairers |-> {},
     leavers |-> {}]

\* three tanks spawn on a line, each overlapping the other two
Pile ==
    [instants |-> {10000, 10100, 10200},
     spawn |-> [a |-> {<<109, 100>>}, b |-> {<<100, 100>>},
                c |-> {<<129, 100>>}],
     moves |-> [a |-> {}, b |-> {}, c |-> {}],
     shooters |-> {},
     repairers |-> {},
     leavers |-> {}]

Envs == {"Duel", "Timers", "Collide", "Leave", "Trio", "Stale", "Pile",
         "Drive", "Wreck"}

\* damage amounts and attacker ids tried on takeDamage
Damages == {1, BULLET_DAMAGE, MAX_HEALTH, 150}
Attackers == IDs \cup {"gone"}

---------------------------------------------------------------------------
(* Arithmetic *)

Abs(n) == IF n < 0 THEN -n ELSE n

\* n / d truncated toward zero, d > 0
TruncDiv(n, d) == IF n >= 0 THEN n \div d ELSE -((-n) \div d)

Min(a, b) == IF a < b THEN a ELSE b
Max(a, b) == IF a > b THEN a ELSE b

\* floor of the square root, for 0 <= n < 2000 * 2000
ISqrt(n) == CHOOSE r \in 0..2000 : r * r <= n /\ n < (r + 1) * (r + 1)

\* 1000 * sin(a degrees), 0 <= a <= 90
SinTab == <<0, 17, 35, 52, 70, 87, 105, 122, 139, 156, 174, 191, 208, 225,
            242, 259, 276, 292, 309, 326, 342, 358, 375, 391, 407, 423, 438,
            454, 469, 485, 500, 515, 530, 545, 559, 574, 588, 602, 616, 629,
            643, 656, 669, 682, 695, 707, 719, 731, 743, 755, 766, 777, 788,
            799, 809, 819, 829, 839, 848, 857, 866, 875, 883, 891, 899, 906,
            914, 921, 927, 934, 940, 946, 951, 956, 961, 966, 970, 974, 978,
            982, 985, 988, 990, 993, 995, 996, 998, 999, 999, 1000, 1000>>

\* a brought into -179..180
NormDeg(a) == ((a + 179) % 360) - 179

\* 1000 * Math.sin(a), a in degrees
Sin1000(a) ==
    LET n == NormDeg(a)
        m == Abs(n)
        s == IF m <= 90 THEN SinTab[m + 1] ELSE SinTab[180 - m + 1]
    IN  IF n < 0 THEN -s ELSE s

\* 1000 * Math.cos(a), a in degrees
Cos1000(a) == Sin1000(a + 90)

\* Math.atan2(y, x) in degrees for x > 0 and y > 0: the degree a with
\* tan(a) <= y / x < tan(a + 1)
AtanQ(y, x) ==
    CHOOSE a \in 0..89 :
        /\ x * SinTab[a + 1] <= y * SinTab[90 - a + 1]
        /\ \/ a = 89
           \/ x * SinTab[a + 2] > y * SinTab[90 - a]

\* Math.atan2(y, x) in degrees, in -179..180; exact on the axes
Atan2Deg(y, x) ==
    CASE y = 0 /\ x >= 0 -> 0
      [] y = 0 /\ x < 0 -> 180
      [] x = 0 /\ y > 0 -> 90
      [] x = 0 /\ y < 0 -> -90
      [] x > 0 /\ y > 0 -> AtanQ(y, x)
      [] x < 0 /\ y > 0 -> 180 - AtanQ(y, -x)
      [] x > 0 /\ y < 0 -> -AtanQ(-y, x)
      [] x < 0 /\ y < 0 -> AtanQ(-y, -x) - 180

---------------------------------------------------------------------------
(* Sequences *)

\* s without its i-th element: Array.prototype.splice(i, 1)
Splice(s, i) == [k \in 1..(Len(s) - 1) |-> IF k < i THEN s[k] ELSE s[k + 1]]

\* the ids of the tanks of ps, in order
IdsOf(ps) == {ps[i].id : i \in 1..Len(ps)}

\* players[id]: the index of the tank with this id, 0 when there is none
Idx(ps, id) ==
    IF id \in IdsOf(ps) THEN CHOOSE i \in 1..Len(ps) : ps[i].id = id ELSE 0

---------------------------------------------------------------------------
(* class Player, lines 82-235 *)

\* constructor(id, x, y), lines 83-98
NewPlayer(id, x, y) ==
    [id |-> id, x |-> x, y |-> y, vx |-> 0, vy |-> 0, angle |-> 0,
     targetAngle |-> 0, hp |-> MAX_HEALTH, score |-> 0, isAlive |-> TRUE,
     respawnTime |-> 0, lastShot |-> 0]

\* respawn(), lines 195-206; sp is the point the two Math.random() calls give
respawn(p, sp) ==
    [p EXCEPT !.isAlive = TRUE, !.hp = MAX_HEALTH, !.x = sp[1], !.y = sp[2],
              !.vx = 0, !.vy = 0, !.angle = 0, !.targetAngle = 0]

\* the shortest signed difference, lines 118-120
AngleDiff(target, angle) ==
    LET d == target - angle
    IN  IF d > 180 THEN d - 360 ELSE IF d < -180 THEN d + 360 ELSE d

\* Math.max(lo, Math.min(hi, v)), lines 125-128
Clamp(lo, hi, v) == Max(lo, Min(hi, v))

\* update() without the respawn of lines 101-106: a dead tank is skipped
update_skipDead(p, dtms, t, sp) ==
    IF ~p.isAlive THEN p
    ELSE LET vx == TruncDiv(p.vx * FRICTION_X100, 100)
             vy == TruncDiv(p.vy * FRICTION_X100, 100)
             x == p.x + TruncDiv(vx * dtms, 1000)
             y == p.y + TruncDiv(vy * dtms, 1000)
             angle == p.angle
                        + TruncDiv(AngleDiff(p.targetAngle, p.angle) * 2, 10)
         IN  [p EXCEPT !.vx = vx, !.vy = vy, !.angle = angle,
                       !.x = Clamp(TANK_RADIUS, ARENA_WIDTH - TANK_RADIUS, x),
                       !.y = Clamp(TANK_RADIUS, ARENA_HEIGHT - TANK_RADIUS, y)]

\* update() respawning as soon as the clock reaches respawnTime
update_eager(p, dtms, t, sp) ==
    IF ~p.isAlive
    THEN IF t >= p.respawnTime THEN respawn(p, sp) ELSE p
    ELSE LET vx == TruncDiv(p.vx * FRICTION_X100, 100)
             vy == TruncDiv(p.vy * FRICTION_X100, 100)
             x == p.x + TruncDiv(vx * dtms, 1000)
             y == p.y + TruncDiv(vy * dtms, 1000)
             angle == p.angle
                        + TruncDiv(AngleDiff(p.targetAngle, p.angle) * 2, 10)
         IN  [p EXCEPT !.vx = vx, !.vy = vy, !.angle = angle,
                       !.x = Clamp(TANK_RADIUS, ARENA_WIDTH - TANK_RADIUS, x),
                       !.y = Clamp(TANK_RADIUS, ARENA_HEIGHT - TANK_RADIUS, y)]

\* update(deltaTime), lines 100-129; dtms is deltaTime in ms, t is Date.now()
update(p, dtms, t, sp) ==
    IF ~p.isAlive
    THEN IF t > p.respawnTime THEN respawn(p, sp) ELSE p
    ELSE LET vx == TruncDiv(p.vx * FRICTION_X100, 100)
             vy == TruncDiv(p.vy * FRICTION_X100, 100)
             x == p.x + TruncDiv(vx * dtms, 1000)
             y == p.y + TruncDiv(vy * dtms, 1000)
             angle == p.angle
                        + TruncDiv(AngleDiff(p.targetAngle, p.angle) * 2, 10)
         IN  [p EXCEPT !.vx = vx, !.vy = vy, !.angle = angle,
                       !.x = Clamp(TANK_RADIUS, ARENA_WIDTH - TANK_RADIUS, x),
                       !.y = Clamp(TANK_RADIUS, ARENA_HEIGHT - TANK_RADIUS, y)]

\* input.boost || 1, in tenths, as the factor of line 134: undefined, false
\* and 0 are falsy and give 1; true stays true and TANK_SPEED * true is
\* TANK_SPEED; a number stays that number
BoostX10(boost) ==
    IF boost.kind = "undefined" \/ boost.val = 0 THEN 10 ELSE boost.val

\* applyInput(input), lines 131-142
applyInput(p, input) ==
    IF ~p.isAlive THEN p
    ELSE LET speedX10 == TANK_SPEED * BoostX10(input.boost)
             vx == TruncDiv(input.dx * speedX10, 10)
             vy == TruncDiv(input.dy * speedX10, 10)
         IN  IF input.dx # 0 \/ input.dy # 0
             THEN [p EXCEPT !.vx = vx, !.vy = vy,
                            !.targetAngle = Atan2Deg(vy, vx)]
             ELSE p

\* what shoot() returns when it returns null
NoBullet == [owner |-> "null"]

\* shoot() without the cooldown test of line 148
shoot_noCooldown(p, t) ==
    IF ~p.isAlive THEN [ret |-> NoBullet, player |-> p]
    ELSE [ret |-> [x |-> p.x + TruncDiv(Cos1000(p.angle) * cannonLength, 1000),
                   y |-> p.y + TruncDiv(Sin1000(p.angle) * cannonLength, 1000),
                   vx |-> TruncDiv(Cos1000(p.angle) * BULLET_SPEED, 1000),
                   vy |-> TruncDiv(Sin1000(p.angle) * BULLET_SPEED, 1000),
                   owner |-> p.id,
                   createdAt |-> t],
          player |-> [p EXCEPT !.lastShot = t]]

\* shoot() recording the time of a request it refuses for the cooldown
shoot_stampRefused(p, t) ==
    IF ~p.isAlive THEN [ret |-> NoBullet, player |-> p]
    ELSE IF t - p.lastShot < shootCooldown
    THEN [ret |-> NoBullet, player |-> [p EXCEPT !.lastShot = t]]
    ELSE [ret |-> [x |-> p.x + TruncDiv(Cos1000(p.angle) * cannonLength, 1000),
                   y |-> p.y + TruncDiv(Sin1000(p.angle) * cannonLength, 1000),
                   vx |-> TruncDiv(Cos1000(p.angle) * BULLET_SPEED, 1000),
                   vy |-> TruncDiv(Sin1000(p.angle) * BULLET_SPEED, 1000),
                   owner |-> p.id,
                   createdAt |-> t],
          player |-> [p EXCEPT !.lastShot = t]]

\* shoot(), lines 144-166, and new Bullet(data), lines 239-242
shoot(p, t) ==
    IF ~p.isAlive THEN [ret |-> NoBullet, player |-> p]
    ELSE IF t - p.lastShot < shootCooldown THEN [ret |-> NoBullet, player |-> p]
    ELSE [ret |-> [x |-> p.x + TruncDiv(Cos1000(p.angle) * cannonLength, 1000),
                   y |-> p.y + TruncDiv(Sin1000(p.angle) * cannonLength, 1000),
                   vx |-> TruncDiv(Cos1000(p.angle) * BULLET_SPEED, 1000),
                   vy |-> TruncDiv(Sin1000(p.angle) * BULLET_SPEED, 1000),
                   owner |-> p.id,
                   createdAt |-> t],
          player |-> [p EXCEPT !.lastShot = t]]

\* die() leaving hp as the damage left it
die_keepHp(p, t) ==
    [p EXCEPT !.isAlive = FALSE, !.respawnTime = t + RESPAWN_TIME,
              !.vx = 0, !.vy = 0]

\* die(), lines 184-193
die(p, t) ==
    [p EXCEPT !.isAlive = FALSE, !.hp = 0, !.respawnTime = t + RESPAWN_TIME,
              !.vx = 0, !.vy = 0]

\* takeDamage() without its first line, the isAlive guard
takeDamage_noGuard(ps, i, damage, attackerId, t) ==
    LET hp == ps[i].hp - damage
    IN  IF hp <= 0
        THEN LET dead == [ps EXCEPT ![i] = die(ps[i], t)]
                 k == Idx(dead, attackerId)
                 died == [type |-> "died", to |-> ps[i].id]
             IN  IF k # 0
                 THEN [players |-> [dead EXCEPT ![k].score = @ + KILL_SCORE],
                       ret |-> TRUE,
                       events |-> <<died, [type |-> "kill", to |-> attackerId,
                                           victim |-> ps[i].id]>>]
                 ELSE [players |-> dead, ret |-> TRUE, events |-> <<died>>]
        ELSE [players |-> [ps EXCEPT ![i].hp = hp], ret |-> FALSE,
              events |-> <<>>]

\* takeDamage() killing only when hp falls below 0
takeDamage_below0(ps, i, damage, attackerId, t) ==
    IF ~ps[i].isAlive THEN [players |-> ps, ret |-> FALSE, events |-> <<>>]
    ELSE LET hp == ps[i].hp - damage
         IN  IF hp < 0
             THEN LET dead == [ps EXCEPT ![i] = die(ps[i], t)]
                      k == Idx(dead, attackerId)
                      died == [type |-> "died", to |-> ps[i].id]
                  IN  IF k # 0
                      THEN [players |->
                                [dead EXCEPT ![k].score = @ + KILL_SCORE],
                            ret |-> TRUE,
                            events |-> <<died, [type |-> "kill",
                                                to |-> attackerId,
                                                victim |-> ps[i].id]>>]
                      ELSE [players |-> dead, ret |-> TRUE,
                            events |-> <<died>>]
             ELSE [players |-> [ps EXCEPT ![i].hp = hp], ret |-> FALSE,
                   events |-> <<>>]

\* takeDamage() crediting the kill only to an attacker that is alive
takeDamage_aliveOnly(ps, i, damage, attackerId, t) ==
    IF ~ps[i].isAlive THEN [players |-> ps, ret |-> FALSE, events |-> <<>>]
    ELSE LET hp == ps[i].hp - damage
         IN  IF hp <= 0
             THEN LET dead == [ps EXCEPT ![i] = die(ps[i], t)]
                      k == Idx(dead, attackerId)
                      died == [type |-> "died", to |-> ps[i].id]
                  IN  IF k # 0 /\ dead[k].isAlive
                      THEN [players |->
                                [dead EXCEPT ![k].score = @ + KILL_SCORE],
                            ret |-> TRUE,
                            events |-> <<died, [type |-> "kill",
                                                to |-> attackerId,
                                                victim |-> ps[i].id]>>]
                      ELSE [players |-> dead, ret |-> TRUE,
                            events |-> <<died>>]
             ELSE [players |-> [ps EXCEPT ![i].hp = hp], ret |-> FALSE,
                   events |-> <<>>]

\* takeDamage(damage, attackerId) on the i-th tank of ps, lines 168-182:
\* the tanks afterwards, what it returns, and the events it emits
takeDamage(ps, i, damage, attackerId, t) ==
    IF ~ps[i].isAlive THEN [players |-> ps, ret |-> FALSE, events |-> <<>>]
    ELSE LET hp == ps[i].hp - damage
         IN  IF hp <= 0
             THEN LET dead == [ps EXCEPT ![i] = die(ps[i], t)]
                      k == Idx(dead, attackerId)
                      died == [type |-> "died", to |-> ps[i].id]
                  IN  IF k # 0
                      THEN [players |->
                                [dead EXCEPT ![k].score = @ + KILL_SCORE],
                            ret |-> TRUE,
                            events |-> <<died, [type |-> "kill",
                                                to |-> attackerId,
                                                victim |-> ps[i].id]>>]
                      ELSE [players |-> dead, ret |-> TRUE,
                            events |-> <<died>>]
             ELSE [players |-> [ps EXCEPT ![i].hp = hp], ret |-> FALSE,
                   events |-> <<>>]

\* lastRepairTime[id], 0 for undefined (both are falsy at line 212)
RepairTimeOf(lrt, id) == IF id \in DOMAIN lrt THEN lrt[id] ELSE 0

\* repair() adding REPAIR_AMOUNT without the Math.min cap
repair_noCap(p, lrt, t) ==
    IF ~p.isAlive THEN [ret |-> FALSE, player |-> p, lrt |-> lrt]
    ELSE IF RepairTimeOf(lrt, p.id) # 0
            /\ t - RepairTimeOf(lrt, p.id) < REPAIR_COOLDOWN
    THEN [ret |-> FALSE, player |-> p, lrt |-> lrt]
    ELSE [ret |-> TRUE,
          player |-> [p EXCEPT !.hp = p.hp + REPAIR_AMOUNT],
          lrt |-> [k \in (DOMAIN lrt) \cup {p.id} |->
                      IF k = p.id THEN t ELSE lrt[k]]]

\* repair() without line 216, which records when it was granted
repair_noStamp(p, lrt, t) ==
    IF ~p.isAlive THEN [ret |-> FALSE, player |-> p, lrt |-> lrt]
    ELSE IF RepairTimeOf(lrt, p.id) # 0
            /\ t - RepairTimeOf(lrt, p.id) < REPAIR_COOLDOWN
    THEN [ret |-> FALSE, player |-> p, lrt |-> lrt]
    ELSE [ret |-> TRUE,
          player |-> [p EXCEPT !.hp = Min(MAX_HEALTH, p.hp + REPAIR_AMOUNT)],
          lrt |-> lrt]

\* repair(), lines 208-219
repair(p, lrt, t) ==
    IF ~p.isAlive THEN [ret |-> FALSE, player |-> p, lrt |-> lrt]
    ELSE IF RepairTimeOf(lrt, p.id) # 0
            /\ t - RepairTimeOf(lrt, p.id) < REPAIR_COOLDOWN
    THEN [ret |-> FALSE, player |-> p, lrt |-> lrt]
    ELSE [ret |-> TRUE,
          player |-> [p EXCEPT !.hp = Min(MAX_HEALTH, p.hp + REPAIR_AMOUNT)],
          lrt |-> [k \in (DOMAIN lrt) \cup {p.id} |->
                      IF k = p.id THEN t ELSE lrt[k]]]

\* toJSON(), lines 221-234
PlayerJSON(p) ==
    [id |-> p.id, x |-> p.x, y |-> p.y, angle |-> p.angle, hp |-> p.hp,
     score |-> p.score, isAlive |-> p.isAlive, vx |-> p.vx, vy |-> p.vy]

---------------------------------------------------------------------------
(* class Bullet, lines 238-267 *)

\* update() of a bullet without the age test of line 251
BulletUpdate_noAge(b, dtms, t) ==
    LET x == b.x + TruncDiv(b.vx * dtms, 1000)
        y == b.y + TruncDiv(b.vy * dtms, 1000)
    IN  [bullet |-> [b EXCEPT !.x = x, !.y = y],
         ret |-> ~(\/ x < -BULLET_MARGIN
                   \/ x > ARENA_WIDTH + BULLET_MARGIN
                   \/ y < -BULLET_MARGIN
                   \/ y > ARENA_HEIGHT + BULLET_MARGIN)]

\* update(deltaTime), lines 244-255: the bullet moved, and what it returns
BulletUpdate(b, dtms, t) ==
    LET x == b.x + TruncDiv(b.vx * dtms, 1000)
        y == b.y + TruncDiv(b.vy * dtms, 1000)
    IN  [bullet |-> [b EXCEPT !.x = x, !.y = y],
         ret |-> ~(\/ x < -BULLET_MARGIN
                   \/ x > ARENA_WIDTH + BULLET_MARGIN
                   \/ y < -BULLET_MARGIN
                   \/ y > ARENA_HEIGHT + BULLET_MARGIN
                   \/ t - b.createdAt > BULLET_LIFETIME)]

\* toJSON(), lines 257-266
BulletJSON(b) ==
    [x |-> b.x, y |-> b.y, vx |-> b.vx, vy |-> b.vy,
     angle |-> Atan2Deg(b.vy, b.vx), owner |-> b.owner]

---------------------------------------------------------------------------
(* function gameLoop, lines 331-439 *)

\* lines 355-360: tank p is alive, is not the bullet's owner, and is nearer
\* than TANK_RADIUS + BULLET_RADIUS (Math.sqrt(d2) < r iff d2 < r * r)
Hits(p, b) ==
    /\ p.isAlive
    /\ p.id # b.owner
    /\ (b.x - p.x) * (b.x - p.x) + (b.y - p.y) * (b.y - p.y)
          < (TANK_RADIUS + BULLET_RADIUS) * (TANK_RADIUS + BULLET_RADIUS)

\* lines 352-382: the first tank, in key order, the bullet hits; 0 if none
FirstHit(ps, b) ==
    IF \E k \in 1..Len(ps) : Hits(ps[k], b)
    THEN CHOOSE k \in 1..Len(ps) :
            Hits(ps[k], b) /\ \A m \in 1..(k - 1) : ~Hits(ps[m], b)
    ELSE 0

\* a hit without line 365, which removes the bullet
ApplyHit_keepBullet(ps, bs, ev, i, k, b, t) ==
    LET td == takeDamage(ps, k, BULLET_DAMAGE, b.owner, t)
        hit == [type |-> "hit", to |-> ps[k].id, damage |-> BULLET_DAMAGE,
                attacker |-> b.owner, bullet |-> i]
        pd == [type |-> "playerDied", playerId |-> ps[k].id,
               killerId |-> b.owner]
    IN  [players |-> td.players,
         bullets |-> bs,
         events |-> ev \o td.events \o <<hit>>
                      \o (IF td.ret THEN <<pd>> ELSE <<>>)]

\* a hit that broadcasts playerDied without the test of line 372
ApplyHit_alwaysDied(ps, bs, ev, i, k, b, t) ==
    LET td == takeDamage(ps, k, BULLET_DAMAGE, b.owner, t)
        hit == [type |-> "hit", to |-> ps[k].id, damage |-> BULLET_DAMAGE,
                attacker |-> b.owner, bullet |-> i]
        pd == [type |-> "playerDied", playerId |-> ps[k].id,
               killerId |-> b.owner]
    IN  [players |-> td.players,
         bullets |-> Splice(bs, i),
         events |-> ev \o td.events \o <<hit>> \o <<pd>>]

\* lines 362-379: the i-th bullet b hits the k-th tank
ApplyHit(ps, bs, ev, i, k, b, t) ==
    LET td == takeDamage(ps, k, BULLET_DAMAGE, b.owner, t)
        hit == [type |-> "hit", to |-> ps[k].id, damage |-> BULLET_DAMAGE,
                attacker |-> b.owner, bullet |-> i]
        pd == [type |-> "playerDied", playerId |-> ps[k].id,
               killerId |-> b.owner]
    IN  [players |-> td.players,
         bullets |-> Splice(bs, i),
         events |-> ev \o td.events \o <<hit>>
                      \o (IF td.ret THEN <<pd>> ELSE <<>>)]

\* lines 342-383: the loop body for index i, then the rest of the loop down
\* to index lo + 1 (lo is 0 in the code)
RECURSIVE BulletLoop(_, _, _, _, _, _, _)
BulletLoop(i, lo, ps, bs, ev, dtms, t) ==
    IF i <= lo THEN [players |-> ps, bullets |-> bs, events |-> ev]
    ELSE LET u == BulletUpdate(bs[i], dtms, t)
         IN  IF ~u.ret
             THEN BulletLoop(i - 1, lo, ps, Splice(bs, i), ev, dtms, t)
             ELSE LET moved == [bs EXCEPT ![i] = u.bullet]
                      k == FirstHit(ps, u.bullet)
                  IN  IF k = 0
                      THEN BulletLoop(i - 1, lo, ps, moved, ev, dtms, t)
                      ELSE LET h == ApplyHit(ps, moved, ev, i, k, u.bullet, t)
                           IN  BulletLoop(i - 1, lo, h.players, h.bullets,
                                          h.events, dtms, t)

\* the response of lines 392-418 without the test of line 392 that both
\* tanks are alive
ResolvePair_deadToo(p1, p2) ==
    LET dx == p1.x - p2.x
        dy == p1.y - p2.y
        distance == ISqrt(dx * dx + dy * dy)
        minDistance == TANK_RADIUS * 2
        angle == Atan2Deg(dy, dx)
        ax == TruncDiv(dx * 1000 + Cos1000(angle) * minDistance, 10000)
        ay == TruncDiv(dy * 1000 + Sin1000(angle) * minDistance, 10000)
        ox == TruncDiv(Cos1000(angle) * (minDistance - distance), 2000)
        oy == TruncDiv(Sin1000(angle) * (minDistance - distance), 2000)
    IN  IF distance < minDistance
        THEN [p1 |-> [p1 EXCEPT !.vx = @ - ax, !.vy = @ - ay,
                                !.x = @ + ox, !.y = @ + oy],
              p2 |-> [p2 EXCEPT !.vx = @ + ax, !.vy = @ + ay,
                                !.x = @ - ox, !.y = @ - oy]]
        ELSE [p1 |-> p1, p2 |-> p2]

\* the response of lines 407-417 applied to p1 alone
ResolvePair_oneSided(p1, p2) ==
    LET dx == p1.x - p2.x
        dy == p1.y - p2.y
        distance == ISqrt(dx * dx + dy * dy)
        minDistance == TANK_RADIUS * 2
        angle == Atan2Deg(dy, dx)
        ax == TruncDiv(dx * 1000 + Cos1000(angle) * minDistance, 10000)
        ay == TruncDiv(dy * 1000 + Sin1000(angle) * minDistance, 10000)
        ox == TruncDiv(Cos1000(angle) * (minDistance - distance), 2000)
        oy == TruncDiv(Sin1000(angle) * (minDistance - distance), 2000)
    IN  IF p1.isAlive /\ p2.isAlive /\ distance < minDistance
        THEN [p1 |-> [p1 EXCEPT !.vx = @ - ax, !.vy = @ - ay,
                                !.x = @ + 2 * ox, !.y = @ + 2 * oy],
              p2 |-> [p2 EXCEPT !.vx = @ + ax, !.vy = @ + ay]]
        ELSE [p1 |-> p1, p2 |-> p2]

\* lines 392-418 for one pair: the two tanks afterwards
ResolvePair(p1, p2) ==
    LET dx == p1.x - p2.x
        dy == p1.y - p2.y
        distance == ISqrt(dx * dx + dy * dy)
        minDistance == TANK_RADIUS * 2
        angle == Atan2Deg(dy, dx)
        \* (targetX - p2.x) * 0.1 with targetX = p1.x + cos(angle) * minDistance
        ax == TruncDiv(dx * 1000 + Cos1000(angle) * minDistance, 10000)
        ay == TruncDiv(dy * 1000 + Sin1000(angle) * minDistance, 10000)
        \* cos(angle) * overlap with overlap = (minDistance - distance) / 2
        ox == TruncDiv(Cos1000(angle) * (minDistance - distance), 2000)
        oy == TruncDiv(Sin1000(angle) * (minDistance - distance), 2000)
    IN  IF p1.isAlive /\ p2.isAlive /\ distance < minDistance
        THEN [p1 |-> [p1 EXCEPT !.vx = @ - ax, !.vy = @ - ay,
                                !.x = @ + ox, !.y = @ + oy],
              p2 |-> [p2 EXCEPT !.vx = @ + ax, !.vy = @ + ay,
                                !.x = @ - ox, !.y = @ - oy]]
        ELSE [p1 |-> p1, p2 |-> p2]

\* lines 387-421: the pairs from (i, j) on, in the order of the two loops
RECURSIVE PairLoop(_, _, _)
PairLoop(ps, i, j) ==
    IF i > Len(ps) THEN ps
    ELSE IF j > Len(ps) THEN PairLoop(ps, i + 1, i + 2)
    ELSE LET r == ResolvePair(ps[i], ps[j])
         IN  PairLoop([ps EXCEPT ![i] = r.p1, ![j] = r.p2], i, j + 1)

\* lines 433-438: the bullets no older than BULLET_LIFETIME at nowTime
Cleanup(bs, nowTime) ==
    SelectSeq(bs, LAMBDA b : ~(nowTime - b.createdAt > BULLET_LIFETIME))

\* lines 336-339: every tank updated; rs[id] is where Math.random() puts it
UpdateAll(ps, dtms, t, rs) ==
    [i \in 1..Len(ps) |-> update(ps[i], dtms, t, rs[ps[i].id])]

\* lines 101-106 and 205: the "respawned" events the loop of lines 336-339
\* emits, in key order
RespawnedEvents(ps, t) ==
    LET due == SelectSeq(ps, LAMBDA p : ~p.isAlive /\ t > p.respawnTime)
    IN  [k \in 1..Len(due) |-> [type |-> "respawned", to |-> due[k].id]]

\* lines 336-383: the tanks, bullets and events after the bullet loop
AfterBullets(ps, bs, dtms, t, rs) ==
    BulletLoop(Len(bs), 0, UpdateAll(ps, dtms, t, rs), bs, <<>>, dtms, t)

\* One call of gameLoop from tanks ps and bullets bs: t is what Date.now()
\* returns up to line 421, t2 what it returns at lines 429 and 433
GameLoop(ps, bs, last, t, t2, rs) ==
    LET dtms == t - last
        ab == AfterBullets(ps, bs, dtms, t, rs)
        after == PairLoop(ab.players, 1, 2)
    IN  [players |-> after,
         sent |-> ab.bullets,
         state |-> [players |-> [i \in 1..Len(after) |-> PlayerJSON(after[i])],
                    bullets |-> [i \in 1..Len(ab.bullets) |->
                                    BulletJSON(ab.bullets[i])],
                    timestamp |-> t2],
         events |-> ab.events,
         bullets |-> Cleanup(ab.bullets, t2)]

---------------------------------------------------------------------------
(* The server as a state machine *)

\* nothing has happened yet to a tank just connected
NoHist == [shotAt |-> 0, repairAt |-> 0, diedAt |-> 0]

\* the function f without key k: delete f[k]
Without(f, k) == [x \in (DOMAIN f) \ {k} |-> f[x]]

\* the function f with key k set to v
With(f, k, v) == [x \in (DOMAIN f) \cup {k} |-> IF x = k THEN v ELSE f[x]]

\* the first value of the clock
\* the environment of this run
Env ==
    CASE env = "Duel" -> Duel
      [] env = "Timers" -> Timers
      [] env = "Collide" -> Collide
      [] env = "Leave" -> Leave
      [] env = "Trio" -> Trio
      [] env = "Stale" -> Stale
      [] env = "Pile" -> Pile
      [] env = "Drive" -> Drive
      [] env = "Wreck" -> Wreck

StartTime == CHOOSE t \in Env.instants : \A u \in Env.instants : t <= u

\* the value of the clock after t
NextInstant(t) ==
    CHOOSE u \in Env.instants :
        u > t /\ \A w \in Env.instants : w > t => u <= w

\* lines 58-60 and 329
Init ==
    /\ env \in Envs
    /\ now = StartTime
    /\ lastUpdate = StartTime
    /\ players = <<>>
    /\ bullets = <<>>
    /\ lastRepairTime = <<>>
    /\ hist = <<>>

\* time passes
Advance ==
    /\ \E u \in Env.instants : u > now
    /\ now' = NextInstant(now)
    /\ UNCHANGED <<lastUpdate, players, bullets, lastRepairTime, hist, env>>

\* io.on("connection"), lines 269-282
Connect(id, sp) ==
    /\ id \notin IdsOf(players)
    /\ players' = Append(players, NewPlayer(id, sp[1], sp[2]))
    /\ hist' = With(hist, id, NoHist)
    /\ UNCHANGED <<now, lastUpdate, bullets, lastRepairTime, env>>

\* socket.on("move"), lines 285-290: the tanks afterwards
MoveOut(ps, id, input) ==
    LET i == Idx(ps, id)
    IN  IF i # 0 THEN [ps EXCEPT ![i] = applyInput(ps[i], input)] ELSE ps

MoveReq(id, input) ==
    /\ players' = MoveOut(players, id, input)
    /\ UNCHANGED <<now, lastUpdate, bullets, lastRepairTime, hist, env>>

\* socket.on("shoot"): what it does to the tanks and the bullets, and the
\* events it emits, lines 293-308
ShootOut(ps, bs, id, t) ==
    LET i == Idx(ps, id)
        r == shoot(ps[i], t)
    IN  IF i = 0 THEN [players |-> ps, bullets |-> bs, events |-> <<>>]
        ELSE IF r.ret = NoBullet
        THEN [players |-> [ps EXCEPT ![i] = r.player], bullets |-> bs,
              events |-> <<>>]
        ELSE [players |-> [ps EXCEPT ![i] = r.player],
              bullets |-> Append(bs, r.ret),
              events |-> <<[type |-> "shootSound", from |-> id,
                            x |-> r.ret.x, y |-> r.ret.y]>>]

ShootReq(id) ==
    LET o == ShootOut(players, bullets, id, now)
    IN  /\ Len(o.bullets) <= MaxBullets
        /\ players' = o.players
        /\ bullets' = o.bullets
        /\ hist' = IF Len(o.bullets) > Len(bullets)
                   THEN [hist EXCEPT ![id].shotAt = now]
                   ELSE hist
        /\ UNCHANGED <<now, lastUpdate, lastRepairTime, env>>

\* socket.on("repair"), lines 311-316
RepairOut(ps, lrt, id, t) ==
    LET i == Idx(ps, id)
        r == repair(ps[i], lrt, t)
    IN  IF i = 0 THEN [players |-> ps, lrt |-> lrt, events |-> <<>>]
        ELSE [players |-> [ps EXCEPT ![i] = r.player], lrt |-> r.lrt,
              events |-> IF r.ret
                         THEN <<[type |-> "repaired", to |-> id,
                                 hp |-> r.player.hp]>>
                         ELSE <<>>]

RepairReq(id) ==
    LET o == RepairOut(players, lastRepairTime, id, now)
    IN  /\ players' = o.players
        /\ lastRepairTime' = o.lrt
        /\ hist' = IF o.events # <<>>
                   THEN [hist EXCEPT ![id].repairAt = now]
                   ELSE hist
        /\ UNCHANGED <<now, lastUpdate, bullets, env>>

\* the disconnect handler without line 322, which deletes the cooldown entry
DisconnectOut_keepCooldown(ps, lrt, id) ==
    [players |-> Splice(ps, Idx(ps, id)), lrt |-> lrt]

\* socket.on("disconnect"), lines 319-323: the two deletes
DisconnectOut(ps, lrt, id) ==
    [players |-> Splice(ps, Idx(ps, id)), lrt |-> Without(lrt, id)]

Disconnect(id) ==
    /\ id \in IdsOf(players)
    /\ players' = DisconnectOut(players, lastRepairTime, id).players
    /\ lastRepairTime' = DisconnectOut(players, lastRepairTime, id).lrt
    /\ hist' = Without(hist, id)
    /\ UNCHANGED <<now, lastUpdate, bullets, env>>

\* the ids the "died" events of ev went to
DiedIn(ev) == {ev[k].to : k \in {m \in 1..Len(ev) : ev[m].type = "died"}}

\* setInterval(gameLoop, frameTime), line 442: one call of gameLoop. The
\* timer's period is longer than the clock's resolution, so the clock has
\* moved since the last call; the clock may move again while it runs.
Tick(t2, rs) ==
    LET o == GameLoop(players, bullets, lastUpdate, now, t2, rs)
    IN  /\ now > lastUpdate
        /\ lastUpdate' = now
        /\ now' = t2
        /\ players' = o.players
        /\ bullets' = o.bullets
        /\ hist' = [id \in DOMAIN hist |->
                       IF id \in DiedIn(o.events)
                       THEN [hist[id] EXCEPT !.diedAt = now]
                       ELSE hist[id]]
        /\ UNCHANGED <<lastRepairTime, env>>

\* the clock values a call of gameLoop that starts now may end at
TickEnds == {now} \cup {u \in Env.instants : u > now /\ u = NextInstant(now)}

\* where Math.random() may put each tank that respawns
Respawns ==
    {rs \in [IdsOf(players) -> UNION {Env.spawn[id] : id \in IDs}] :
        \A id \in IdsOf(players) : rs[id] \in Env.spawn[id]}

Next ==
    \/ Advance
    \/ \E id \in IDs : \E sp \in Env.spawn[id] : Connect(id, sp)
    \/ \E id \in IDs : \E input \in Env.moves[id] : MoveReq(id, input)
    \/ \E id \in Env.shooters : ShootReq(id)
    \/ \E id \in Env.repairers : RepairReq(id)
    \/ \E id \in Env.leavers : Disconnect(id)
    \/ \E t2 \in TickEnds : \E rs \in Respawns : Tick(t2, rs)

Spec == Init /\ [][Next]_vars

\* a step of gameLoop: the only steps that change lastUpdate
TickStep == lastUpdate' # lastUpdate

\* The timer of line 442 keeps calling gameLoop: weak fairness of Tick,
\* WF_vars(\E t2 \in TickEnds : \E rs \in Respawns : Tick(t2, rs)), written
\* out as "infinitely often disabled or infinitely often taken". Tick is
\* enabled exactly when the clock has moved since the last call.
TickFair == []<>(~(now > lastUpdate)) \/ []<><<TickStep>>_vars

\* The clock keeps advancing (as far as the environment's instants go) and
\* gameLoop keeps being called.
LiveSpec == Spec /\ WF_vars(Advance) /\ TickFair

---------------------------------------------------------------------------
(* Properties *)

\* the indices of the tanks
Tanks == 1..Len(players)

\* a call of gameLoop can start: the clock has moved since the last one
TickReady == now > lastUpdate

\* tank p stands inside the arena, a tank's radius from every wall
InBounds(p) ==
    /\ TANK_RADIUS <= p.x /\ p.x <= ARENA_WIDTH - TANK_RADIUS
    /\ TANK_RADIUS <= p.y /\ p.y <= ARENA_HEIGHT - TANK_RADIUS

\* C1: in every reachable state every tank's hp is at least 0 and at most
\* MAX_HEALTH.
C1_HpInRange ==
    \A i \in Tanks : 0 <= players[i].hp /\ players[i].hp <= MAX_HEALTH

\* a tank that was hit, repaired and then hit three more times
C1_Witness ==
    \E i \in Tanks :
        /\ players[i].hp = MAX_HEALTH + REPAIR_AMOUNT - 4 * BULLET_DAMAGE
        /\ hist[players[i].id].repairAt # 0

\* C2: after every completed call of gameLoop every tank stands inside the
\* arena, a tank's radius from every wall (tanks are placed inside and only
\* gameLoop moves them, so the state between two calls is the state the last
\* call left).
C2_InBoundsAfterTick == \A i \in Tanks : InBounds(players[i])

\* C3: in every reachable state a tank's hp is 0 exactly when it is not alive.
C3_ZeroIffDead ==
    \A i \in Tanks : (players[i].hp = 0) <=> ~players[i].isAlive

\* a tank that was granted a repair has just died
C3_Witness ==
    \E i \in Tanks :
        /\ ~players[i].isAlive
        /\ hist[players[i].id].repairAt # 0
        /\ hist[players[i].id].diedAt = now

\* C4: takeDamage on a dead tank, for every damage and attacker id, returns
\* false, emits nothing and leaves every tank (the victim's hp, isAlive and
\* respawnTime, the attacker's score) as it was.
C4_DeadTakesNoDamage ==
    \A i \in Tanks : \A d \in Damages : \A att \in Attackers :
        ~players[i].isAlive =>
            takeDamage(players, i, d, att, now)
                = [players |-> players, ret |-> FALSE, events |-> <<>>]

\* a dead tank, later than its death, its killer still connected
C4_Witness ==
    \E i \in Tanks : \E k \in Tanks :
        /\ ~players[i].isAlive
        /\ now > hist[players[i].id].diedAt
        /\ players[k].score > 0

\* C5: a tank that died at time t has respawnTime = t + RESPAWN_TIME and is
\* not alive in any state whose clock has not passed that time, whatever
\* happened since; its first update at a later clock value leaves it alive
\* with hp = MAX_HEALTH.
C5_RespawnRoundTrip ==
    \A i \in Tanks :
        LET p == players[i]
            t == hist[p.id].diedAt
        IN  /\ ~p.isAlive => t # 0
            /\ t # 0 /\ now <= t + RESPAWN_TIME =>
                  ~p.isAlive /\ p.respawnTime = t + RESPAWN_TIME
            /\ ~p.isAlive /\ now > t + RESPAWN_TIME =>
                  \A sp \in Env.spawn[p.id] :
                      LET q == update(p, now - lastUpdate, now, sp)
                      IN  q.isAlive /\ q.hp = MAX_HEALTH

\* a tank is back: it died, and gameLoop ran after its respawn time
C5_Witness ==
    \E i \in Tanks :
        /\ players[i].isAlive
        /\ hist[players[i].id].diedAt # 0
        /\ now > hist[players[i].id].diedAt + RESPAWN_TIME

\* C6: when an alive tank whose last successful shot was at t1 asks to shoot
\* at a later time t2, the request adds no bullet and shoot returns null if
\* t2 - t1 < shootCooldown, and it adds one bullet of that tank if
\* t2 - t1 > shootCooldown.
C6_ShootCooldown ==
    \A i \in Tanks :
        LET p == players[i]
            t1 == hist[p.id].shotAt
            o == ShootOut(players, bullets, p.id, now)
        IN  p.isAlive /\ t1 # 0 /\ now > t1 =>
              /\ now - t1 < shootCooldown =>
                    /\ shoot(p, now).ret = NoBullet
                    /\ o.bullets = bullets
              /\ now - t1 > shootCooldown =>
                    /\ shoot(p, now).ret # NoBullet
                    /\ Len(o.bullets) = Len(bullets) + 1
                    /\ o.bullets[Len(o.bullets)].owner = p.id
                    /\ o.bullets[Len(o.bullets)].createdAt = now

\* a tank that shot less than shootCooldown ago, its bullet still flying
C6_Witness ==
    \E i \in Tanks : \E k \in 1..Len(bullets) :
        /\ players[i].isAlive
        /\ bullets[k].owner = players[i].id
        /\ bullets[k].createdAt = hist[players[i].id].shotAt
        /\ now > bullets[k].createdAt
        /\ now - bullets[k].createdAt < shootCooldown

\* C7: when an alive tank that was last granted a repair at t1 asks again at
\* t2, then if t2 - t1 < REPAIR_COOLDOWN repair returns false and the request
\* changes neither a tank nor lastRepairTime and emits nothing; if it was
\* never granted one or t2 - t1 > REPAIR_COOLDOWN, repair returns true, hp
\* grows by min(REPAIR_AMOUNT, MAX_HEALTH - hp) and the time is recorded.
C7_RepairCooldown ==
    \A i \in Tanks :
        LET p == players[i]
            t1 == hist[p.id].repairAt
            r == repair(p, lastRepairTime, now)
            o == RepairOut(players, lastRepairTime, p.id, now)
        IN  p.isAlive =>
              /\ t1 # 0 /\ now - t1 < REPAIR_COOLDOWN =>
                    /\ ~r.ret
                    /\ o = [players |-> players, lrt |-> lastRepairTime,
                            events |-> <<>>]
              /\ t1 = 0 \/ now - t1 > REPAIR_COOLDOWN =>
                    /\ r.ret
                    /\ o.players[i].hp
                          = p.hp + Min(REPAIR_AMOUNT, MAX_HEALTH - p.hp)
                    /\ RepairTimeOf(o.lrt, p.id) = now
                    /\ Len(o.events) = 1

\* a damaged tank that was granted a repair less than REPAIR_COOLDOWN ago
C7_Witness ==
    \E i \in Tanks :
        /\ players[i].isAlive
        /\ players[i].hp = MAX_HEALTH - BULLET_DAMAGE + REPAIR_AMOUNT
        /\ hist[players[i].id].repairAt # 0
        /\ now > hist[players[i].id].repairAt
        /\ now - hist[players[i].id].repairAt < REPAIR_COOLDOWN

\* C8 as claimed: no bullet is in bullets at a clock value later than its
\* createdAt + BULLET_LIFETIME.
C8_NeverSeenExpired ==
    \A k \in 1..Len(bullets) : now - bullets[k].createdAt <= BULLET_LIFETIME

\* C8 as amended: a bullet older than BULLET_LIFETIME stays in bullets only
\* until gameLoop runs. No call of gameLoop broadcasts a bullet older than
\* BULLET_LIFETIME at the clock value it updated the bullets at, none leaves
\* in bullets one older than that at the clock value of its last sweep, and so
\* no bullet in bullets was older than that when gameLoop last started.
C8_ExpiredGoneAfterTick ==
    /\ \A k \in 1..Len(bullets) :
          lastUpdate - bullets[k].createdAt <= BULLET_LIFETIME
    /\ TickReady =>
          \A t2 \in TickEnds : \A rs \in Respawns :
              LET o == GameLoop(players, bullets, lastUpdate, now, t2, rs)
              IN  /\ Len(o.state.bullets) = Len(o.sent)
                  /\ \A k \in 1..Len(o.sent) :
                        now - o.sent[k].createdAt <= BULLET_LIFETIME
                  /\ \A k \in 1..Len(o.bullets) :
                        t2 - o.bullets[k].createdAt <= BULLET_LIFETIME

\* gameLoop is about to run with a bullet older than BULLET_LIFETIME
C8_Witness ==
    /\ TickReady
    /\ \E k \in 1..Len(bullets) : now - bullets[k].createdAt > BULLET_LIFETIME

\* the clock-independent part of the test of lines 355-360
Target(p, b) ==
    /\ p.isAlive
    /\ p.id # b.owner
    /\ (b.x - p.x) * (b.x - p.x) + (b.y - p.y) * (b.y - p.y) < 625

\* the call of gameLoop that starts in this state: the time it integrates
\* over, the i-th bullet integrated, the state when the loop of line 342
\* reaches index i and when it leaves it, and the "hit" events of bullet i
TickDt == now - lastUpdate
Moved(i) == BulletUpdate(bullets[i], TickDt, now)
Reaching(i, rs) ==
    BulletLoop(Len(bullets), i, UpdateAll(players, TickDt, now, rs), bullets,
               <<>>, TickDt, now)
Leaving(i, rs) ==
    BulletLoop(Len(bullets), i - 1, UpdateAll(players, TickDt, now, rs),
               bullets, <<>>, TickDt, now)
HitsOf(ev, i) ==
    {k \in 1..Len(ev) : ev[k].type = "hit" /\ ev[k].bullet = i}

\* C9 as claimed: in a call of gameLoop, every bullet that after its
\* integration is in range of an alive tank other than its owner is the
\* bullet of exactly one "hit".
C9_EveryBulletInRangeHits ==
    TickReady =>
        \A rs \in Respawns : \A i \in 1..Len(bullets) :
            LET ps == UpdateAll(players, TickDt, now, rs)
                ev == AfterBullets(players, bullets, TickDt, now, rs).events
            IN  (\E k \in 1..Len(ps) : Target(ps[k], Moved(i).bullet))
                    => Cardinality(HitsOf(ev, i)) = 1

\* C9 as amended: in a call of gameLoop, a bullet hits exactly when it passed
\* its own update (not expired, not out of bounds) and is then in range of a
\* tank, other than its owner, that is alive when the loop reaches the
\* bullet. It hits once: the first such tank in key order, whose hp drops by
\* BULLET_DAMAGE or to 0, and no other tank changes. The bullets broadcast are
\* the integrated bullets that passed their update and did not hit, in order.
C9_OneHitPerBullet ==
    TickReady =>
        \A rs \in Respawns :
            LET full == AfterBullets(players, bullets, TickDt, now, rs)
                idx == [i \in 1..Len(bullets) |-> i]
                keep == SelectSeq(idx, LAMBDA i :
                            Moved(i).ret /\ HitsOf(full.events, i) = {})
            IN  /\ full.bullets = [k \in 1..Len(keep) |-> Moved(keep[k]).bullet]
                /\ \A i \in 1..Len(bullets) :
                     LET b == Moved(i).bullet
                         bf == Reaching(i, rs).players
                         af == Leaving(i, rs).players
                         hs == HitsOf(full.events, i)
                         aim == {k \in 1..Len(bf) : Target(bf[k], b)}
                     IN  /\ Cardinality(hs) <= 1
                         /\ hs # {} <=> Moved(i).ret /\ aim # {}
                         /\ hs = {} => af = bf
                         /\ hs # {} =>
                              LET h == full.events[CHOOSE k \in hs : TRUE]
                                  v == Idx(bf, h.to)
                              IN  /\ v \in aim
                                  /\ \A m \in aim : v <= m
                                  /\ h.damage = BULLET_DAMAGE
                                  /\ h.attacker = b.owner
                                  /\ af[v].hp = Max(0, bf[v].hp - BULLET_DAMAGE)
                                  /\ \A m \in 1..Len(bf) :
                                        m # v => af[m].hp = bf[m].hp

\* gameLoop is about to run with two bullets that will both be in range of
\* the same two tanks
C9_Witness ==
    /\ TickReady
    /\ Len(bullets) = 2
    /\ \E rs \in Respawns :
          LET ps == UpdateAll(players, TickDt, now, rs)
          IN  \A i \in 1..2 :
                /\ Moved(i).ret
                /\ Cardinality({k \in 1..Len(ps) :
                                   Target(ps[k], Moved(i).bullet)}) = 2

\* the squared distance between the centres of p and q
Dist2(p, q) == (p.x - q.x) * (p.x - q.x) + (p.y - q.y) * (p.y - q.y)

\* what the pair response does to tanks p and q
PairSymmetric(p, q) ==
    LET r == ResolvePair(p, q)
    IN  /\ r.p1.x - p.x = -(r.p2.x - q.x)
        /\ r.p1.y - p.y = -(r.p2.y - q.y)
        /\ r.p1.vx - p.vx = -(r.p2.vx - q.vx)
        /\ r.p1.vy - p.vy = -(r.p2.vy - q.vy)
        /\ [r.p1 EXCEPT !.x = p.x, !.y = p.y, !.vx = p.vx, !.vy = p.vy] = p
        /\ [r.p2 EXCEPT !.x = q.x, !.y = q.y, !.vx = q.vx, !.vy = q.vy] = q
        /\ ~(p.isAlive /\ q.isAlive
             /\ Dist2(p, q) < (2 * TANK_RADIUS) * (2 * TANK_RADIUS))
              => r.p1 = p /\ r.p2 = q

\* C10: the tank-vs-tank response changes the position and the velocity of
\* one tank of a pair by the exact negation of what it changes the other's
\* by, and changes nothing of a pair that does not overlap or has a dead
\* member; for every pair of tanks gameLoop's pair loop can meet.
C10_PairSymmetry ==
    /\ \A i \in Tanks : \A j \in Tanks :
          i # j => PairSymmetric(players[i], players[j])
    /\ TickReady =>
          \A rs \in Respawns :
              LET ps == AfterBullets(players, bullets, TickDt, now, rs).players
              IN  \A i \in 1..Len(ps) : \A j \in 1..Len(ps) :
                      i # j => PairSymmetric(ps[i], ps[j])

\* two alive tanks that overlap, off centre, after gameLoop has pushed them
C10_Witness ==
    /\ TickReady
    /\ lastUpdate > StartTime
    /\ \E i \in Tanks : \E j \in Tanks :
          /\ i < j
          /\ players[i].isAlive /\ players[j].isAlive
          /\ Dist2(players[i], players[j]) > 0
          /\ Dist2(players[i], players[j])
                < (2 * TANK_RADIUS) * (2 * TANK_RADIUS)
          /\ players[i].vx # 0

\* the pair (p, q) is one the response of lines 398-418 fires for
Overlap(p, q) ==
    /\ p.isAlive /\ q.isAlive
    /\ Dist2(p, q) < (2 * TANK_RADIUS) * (2 * TANK_RADIUS)

\* the component of the velocity change from tank p to tank r along (ux, uy)
DvAlong(p, r, ux, uy) == (r.vx - p.vx) * ux + (r.vy - p.vy) * uy

\* C11: when the tank-vs-tank response fires for a pair whose centres differ,
\* the velocity change of tank 1 has a positive component along the direction
\* from tank 2 to tank 1, and the velocity change of tank 2 a positive
\* component along the direction from tank 1 to tank 2.
C11_VelocityTowardSeparation ==
    \A i \in Tanks : \A j \in Tanks :
        LET p == players[i]
            q == players[j]
            r == ResolvePair(p, q)
        IN  i < j /\ Overlap(p, q) /\ Dist2(p, q) > 0 =>
              /\ DvAlong(p, r.p1, p.x - q.x, p.y - q.y) > 0
              /\ DvAlong(q, r.p2, q.x - p.x, q.y - p.y) > 0

\* the unordered pairs of n tanks, as index pairs, and the orders a loop
\* over them can take them in
Pairs(n) == {pr \in (1..n) \X (1..n) : pr[1] < pr[2]}
Orders(n) ==
    {o \in [1..Cardinality(Pairs(n)) -> Pairs(n)] :
        \A a \in DOMAIN o : \A b \in DOMAIN o : a # b => o[a] # o[b]}

\* the order of the two loops of lines 387-388
CodeOrder(n) ==
    CHOOSE o \in Orders(n) :
        \A a \in DOMAIN o : \A b \in DOMAIN o :
            a < b => \/ o[a][1] < o[b][1]
                     \/ o[a][1] = o[b][1] /\ o[a][2] < o[b][2]

\* the response of lines 392-418 applied to the pairs o[k], o[k + 1], ... in
\* that order: the tanks afterwards and the pairs it fired for
RECURSIVE PairSteps(_, _, _, _)
PairSteps(ps, fired, o, k) ==
    IF k > Len(o) THEN [players |-> ps, fired |-> fired]
    ELSE LET i == o[k][1]
             j == o[k][2]
             r == ResolvePair(ps[i], ps[j])
         IN  PairSteps([ps EXCEPT ![i] = r.p1, ![j] = r.p2],
                       IF Overlap(ps[i], ps[j]) THEN Append(fired, o[k])
                       ELSE fired,
                       o, k + 1)

\* the pairs of ps that overlap
Overlapping(ps) == {pr \in Pairs(Len(ps)) : Overlap(ps[pr[1]], ps[pr[2]])}

\* the pairs of the sequence f
Range(f) == {f[k] : k \in DOMAIN f}

\* C12: the tank-vs-tank phase of a call of gameLoop leaves every tank with
\* the position and velocity that any other order of enumerating the pairs
\* would leave it with, and it fires the response once for each pair that
\* overlaps when the phase starts, and for no other pair.
C12_PairOrderIndependent ==
    TickReady =>
        \A rs \in Respawns :
            LET ps == AfterBullets(players, bullets, TickDt, now, rs).players
                code == PairSteps(ps, <<>>, CodeOrder(Len(ps)), 1)
            IN  /\ code.players = PairLoop(ps, 1, 2)
                /\ \A o \in Orders(Len(ps)) :
                      PairSteps(ps, <<>>, o, 1).players = code.players
                /\ Range(code.fired) = Overlapping(ps)
                /\ Len(code.fired) = Cardinality(Overlapping(ps))

\* the "move" payloads tried on applyInput
Boosts == {NoBoost, BoostTrue, BoostFalse, BoostBy(18), BoostBy(50)}
MoveInputs == [dx : {-1, 0, 1}, dy : {-1, 0, 1}, boost : Boosts]

\* the boost flag of a payload is set: its boost field is truthy
BoostSet(input) == input.boost.kind # "undefined" /\ input.boost.val # 0

\* C13: a move with a non-zero direction applied to an alive tank sets its
\* velocity to (dx, dy) * TANK_SPEED * 1.8 when the boost flag is set and to
\* (dx, dy) * TANK_SPEED when it is not, whatever the boost field holds.
C13_BoostMultiplier ==
    \A i \in Tanks : \A input \in MoveInputs :
        LET p == players[i]
            q == applyInput(p, input)
            m == IF BoostSet(input) THEN TANK_BOOST_MULTIPLIER_X10 ELSE 10
        IN  p.isAlive /\ (input.dx # 0 \/ input.dy # 0) =>
              /\ q.vx = TruncDiv(input.dx * TANK_SPEED * m, 10)
              /\ q.vy = TruncDiv(input.dy * TANK_SPEED * m, 10)

\* the scores of the tanks of ps, in order
Scores(ps) == [i \in 1..Len(ps) |-> ps[i].score]

\* the "playerDied" events of ev that name id as the killer
KillsBy(ev, id) ==
    {k \in 1..Len(ev) : ev[k].type = "playerDied" /\ ev[k].killerId = id}

\* C14, takeDamage: a call on an alive tank that kills it adds KILL_SCORE to
\* the score of the attacker if the attacker id is in players, dead or alive,
\* and to nobody's otherwise; a call that does not kill changes no score.
C14_Credit ==
    \A i \in Tanks : \A d \in Damages : \A att \in Attackers :
        LET o == takeDamage(players, i, d, att, now)
            k == Idx(players, att)
        IN  players[i].isAlive =>
              /\ o.ret <=> d >= players[i].hp
              /\ o.ret /\ k # 0 =>
                    Scores(o.players)
                        = [Scores(players) EXCEPT ![k] = @ + KILL_SCORE]
              /\ ~o.ret \/ k = 0 => Scores(o.players) = Scores(players)

\* C14, gameLoop: a call adds to each tank's score KILL_SCORE for every death
\* it broadcasts with that tank as the killer, and nothing else.
C14_TickScores ==
    TickReady =>
        \A t2 \in TickEnds : \A rs \in Respawns :
            LET o == GameLoop(players, bullets, lastUpdate, now, t2, rs)
            IN  \A i \in Tanks :
                    o.players[i].score
                        = players[i].score
                            + KILL_SCORE
                                * Cardinality(KillsBy(o.events, players[i].id))

\* C14, every step: the score of a tank that stays connected never decreases,
\* changes by multiples of KILL_SCORE, and changes only in a call of gameLoop.
C14_ScoreStep ==
    \A i \in Tanks : \A j \in 1..Len(players') :
        players[i].id = players'[j].id =>
            /\ players'[j].score >= players[i].score
            /\ (players'[j].score - players[i].score) % KILL_SCORE = 0
            /\ players'[j].score # players[i].score =>
                  lastUpdate' # lastUpdate

\* C14: every death by takeDamage credits KILL_SCORE to the attacker exactly
\* when the attacker id is in players at that moment, even if the attacker is
\* dead, and to nobody otherwise; no score changes in another way, so every
\* score is a non-negative multiple of KILL_SCORE and never decreases.
C14_KillScore ==
    /\ [](C14_Credit /\ C14_TickScores)
    /\ [](\A i \in Tanks :
             players[i].score >= 0 /\ players[i].score % KILL_SCORE = 0)
    /\ [][C14_ScoreStep]_vars

\* gameLoop is about to run and a tank will die of a bullet whose owner has
\* disconnected
C14_Witness ==
    /\ TickReady
    /\ \E rs \in Respawns :
          LET ev == AfterBullets(players, bullets, TickDt, now, rs).events
          IN  \E k \in 1..Len(ev) :
                /\ ev[k].type = "playerDied"
                /\ ev[k].killerId \notin IdsOf(players)

\* the clock values from now on
Later == {u \in Env.instants : u >= now}

\* C15: a tank at hp = MAX_HEALTH that takes four hits of BULLET_DAMAGE with
\* nothing in between is alive with hp 75, 50, 25 after hits 1 to 3, each of
\* which returns false; the 4th returns true and leaves it not alive, with
\* hp 0, velocity zero and respawnTime the time of that hit + RESPAWN_TIME.
\* In the run itself, a tank never granted a repair has hp 100, 75, 50 or 25
\* while alive, and once dead it is as the 4th hit left it.
C15_FourHits ==
    /\ \A i \in Tanks : \A att \in Attackers : \A t4 \in Later :
          LET h1 == takeDamage(players, i, BULLET_DAMAGE, att, now)
              h2 == takeDamage(h1.players, i, BULLET_DAMAGE, att, now)
              h3 == takeDamage(h2.players, i, BULLET_DAMAGE, att, t4)
              h4 == takeDamage(h3.players, i, BULLET_DAMAGE, att, t4)
              p4 == h4.players[i]
          IN  players[i].isAlive /\ players[i].hp = MAX_HEALTH =>
                /\ ~h1.ret /\ h1.players[i].isAlive /\ h1.players[i].hp = 75
                /\ ~h2.ret /\ h2.players[i].isAlive /\ h2.players[i].hp = 50
                /\ ~h3.ret /\ h3.players[i].isAlive /\ h3.players[i].hp = 25
                /\ h4.ret
                /\ ~p4.isAlive /\ p4.hp = 0 /\ p4.vx = 0 /\ p4.vy = 0
                /\ p4.respawnTime = t4 + RESPAWN_TIME
    /\ \A i \in Tanks :
          LET p == players[i]
          IN  hist[p.id].repairAt = 0 =>
                IF p.isAlive
                THEN p.hp \in {MAX_HEALTH, 75, 50, 25}
                ELSE /\ p.hp = 0 /\ p.vx = 0 /\ p.vy = 0
                     /\ p.respawnTime = hist[p.id].diedAt + RESPAWN_TIME

\* a tank never granted a repair was hit by the fourth bullet in the last
\* call of gameLoop and is dead, its killer credited
C15_Witness ==
    \E i \in Tanks : \E k \in Tanks :
        /\ ~players[i].isAlive
        /\ hist[players[i].id].repairAt = 0
        /\ hist[players[i].id].diedAt = lastUpdate
        /\ players[k].score = KILL_SCORE

\* the ids of the tanks a call of gameLoop with result o kept, put in its
\* snapshot, damaged or told of a death or a kill
TanksIn(o) ==
    IdsOf(o.players) \cup IdsOf(o.state.players)
        \cup {o.events[k].to :
                 k \in {m \in 1..Len(o.events) :
                           o.events[m].type \in {"hit", "died", "kill"}}}
        \cup {o.events[k].playerId :
                 k \in {m \in 1..Len(o.events) :
                           o.events[m].type = "playerDied"}}

\* C16, every state: every key of lastRepairTime is a key of players; a call
\* of gameLoop touches only the tanks in players, and the one that follows
\* the disconnect of any tank X touches no tank with id X.
C16_NoTraceOfLeaver ==
    /\ DOMAIN lastRepairTime \subseteq IdsOf(players)
    /\ TickReady =>
          \A t2 \in TickEnds : \A rs \in Respawns :
              TanksIn(GameLoop(players, bullets, lastUpdate, now, t2, rs))
                  = IdsOf(players)
    /\ \A i \in Tanks :
          LET X == players[i].id
              d == DisconnectOut(players, lastRepairTime, X)
          IN  /\ X \notin IdsOf(d.players)
              /\ X \notin DOMAIN d.lrt
              /\ IdsOf(d.players) = IdsOf(players) \ {X}
              /\ TickReady =>
                    \A t2 \in TickEnds : \A rs \in Respawns :
                        X \notin TanksIn(GameLoop(d.players, bullets,
                                                  lastUpdate, now, t2, rs))

\* C16, every step: a tank that leaves players leaves lastRepairTime with it.
C16_LeaveStep ==
    \A i \in Tanks :
        players[i].id \notin IdsOf(players') =>
            players[i].id \notin DOMAIN lastRepairTime'

\* C16: disconnect removes the session's tank and its repair-cooldown entry
\* together; every key of lastRepairTime is always a key of players, and
\* after the disconnect of X no call of gameLoop updates, collides, damages
\* or puts in a snapshot a tank with id X.
C16_DisconnectRemoves == []C16_NoTraceOfLeaver /\ [][C16_LeaveStep]_vars

\* gameLoop is due, a tank that has a repair-cooldown entry is in range of
\* a flying bullet, and its session may end now
C16_Witness ==
    /\ TickReady
    /\ \E i \in Tanks : \E k \in 1..Len(bullets) :
          /\ players[i].id \in Env.leavers
          /\ players[i].id \in DOMAIN lastRepairTime
          /\ Moved(k).ret
          /\ Hits(players[i], Moved(k).bullet)

\* the session ids requests are tried for: the three and one never connected
Sessions == IDs \cup {"gone"}

\* the request of session id is one the server refuses: there is no tank, or
\* the tank is dead, or (shoot, repair) its cooldown is running
NoTank(id) == id \notin IdsOf(players)
Dead(id) == ~NoTank(id) /\ ~players[Idx(players, id)].isAlive
ShootCooling(id) ==
    /\ ~NoTank(id)
    /\ now - players[Idx(players, id)].lastShot < shootCooldown
RepairCooling(id) ==
    /\ id \in DOMAIN lastRepairTime
    /\ lastRepairTime[id] # 0
    /\ now - lastRepairTime[id] < REPAIR_COOLDOWN

\* C17: a refused request is a silent no-op: a shoot while dead or on
\* cooldown, a repair while dead or on cooldown, a move while dead, and any
\* move, shoot or repair of a session with no tank in players leave the
\* tanks, the bullets and lastRepairTime as they were and emit no event.
C17_RejectedIsNoOp ==
    \A id \in Sessions :
        /\ NoTank(id) \/ Dead(id) \/ ShootCooling(id) =>
              ShootOut(players, bullets, id, now)
                  = [players |-> players, bullets |-> bullets,
                     events |-> <<>>]
        /\ NoTank(id) \/ Dead(id) \/ RepairCooling(id) =>
              RepairOut(players, lastRepairTime, id, now)
                  = [players |-> players, lrt |-> lastRepairTime,
                     events |-> <<>>]
        /\ NoTank(id) \/ Dead(id) =>
              \A input \in MoveInputs : MoveOut(players, id, input) = players

\* a dead tank whose repair cooldown is running, and its killer, which shot
\* less than shootCooldown before
C17_Witness ==
    \E i \in Tanks : \E k \in Tanks :
        /\ Dead(players[i].id)
        /\ RepairCooling(players[i].id)
        /\ players[k].isAlive
        /\ players[k].score > 0
        /\ players[k].lastShot > 0
        /\ ShootCooling(players[k].id)

\* the last value the clock takes in this environment
LastInstant == CHOOSE t \in Env.instants : \A u \in Env.instants : u <= t

\* tank id is dead and due to respawn before the clock of the model stops
AwaitsRespawn(id) ==
    /\ Dead(id)
    /\ players[Idx(players, id)].respawnTime < LastInstant

\* tank id is alive, or its session has ended
BackOrGone(id) == NoTank(id) \/ players[Idx(players, id)].isAlive

\* no step changes the respawnTime of a tank that is dead before and after it
RespawnTimeKept ==
    \A i \in Tanks : \A j \in 1..Len(players') :
        /\ players[i].id = players'[j].id
        /\ ~players[i].isAlive
        /\ ~players'[j].isAlive
        => players'[j].respawnTime = players[i].respawnTime

\* C18: while the clock advances and gameLoop keeps being called, a tank that
\* has died and stays connected is eventually alive again; nothing that
\* happens while it is dead changes the respawn time it was given.
C18_EventuallyRespawns ==
    /\ \A id \in IDs : AwaitsRespawn(id) ~> BackOrGone(id)
    /\ [][RespawnTimeKept]_vars

\* a tank is alive again after gameLoop ran past its respawn time, and its
\* killer asked to shoot while it was dead
C18_Witness ==
    \E i \in Tanks : \E k \in Tanks :
        LET t == hist[players[i].id].diedAt
        IN  /\ players[i].isAlive
            /\ t # 0
            /\ lastUpdate > t + RESPAWN_TIME
            /\ players[k].score > 0
            /\ players[k].lastShot > t
            /\ players[k].lastShot <= t + RESPAWN_TIME

\* everything the call of gameLoop that starts in this state emits, in order
TickEvents(rs) ==
    RespawnedEvents(players, now)
        \o AfterBullets(players, bullets, TickDt, now, rs).events

\* the "died" and "respawned" events of ev sent to id, in order
LifeEvents(ev, id) ==
    SelectSeq(ev, LAMBDA e : e.type \in {"died", "respawned"} /\ e.to = id)

\* the "playerDied" events of ev that name id as the victim
DeathsOf(ev, id) ==
    {k \in 1..Len(ev) : ev[k].type = "playerDied" /\ ev[k].playerId = id}

\* C19, every state: a tank is dead exactly when the last of the "died" and
\* "respawned" events sent to its session was "died" (it has died before
\* whenever it is dead). From there, the events a call of gameLoop sends to
\* the session alternate, the first being "died" if the tank is alive and
\* "respawned" if it is dead, and the last again tells whether the tank is
\* alive; the call broadcasts one "playerDied" naming the tank for each
\* "died" it sends it, and none otherwise.
C19_LifeInTick ==
    /\ \A i \in Tanks : ~players[i].isAlive => hist[players[i].id].diedAt # 0
    /\ TickReady =>
          \A t2 \in TickEnds : \A rs \in Respawns : \A i \in Tanks :
              LET o == GameLoop(players, bullets, lastUpdate, now, t2, rs)
                  id == players[i].id
                  life == LifeEvents(TickEvents(rs), id)
                  before == IF players[i].isAlive THEN "respawned" ELSE "died"
                  all == <<before>> \o [k \in 1..Len(life) |-> life[k].type]
              IN  /\ \A k \in 1..(Len(all) - 1) : all[k] # all[k + 1]
                  /\ o.players[i].isAlive <=> all[Len(all)] = "respawned"
                  /\ Cardinality(DeathsOf(TickEvents(rs), id))
                        = Cardinality({k \in 1..Len(life) :
                                          life[k].type = "died"})

\* C19, every step: only a call of gameLoop changes whether a tank is alive.
C19_LifeStep ==
    \A i \in Tanks : \A j \in 1..Len(players') :
        /\ players[i].id = players'[j].id
        /\ players[i].isAlive # players'[j].isAlive
        => lastUpdate' # lastUpdate

\* C19: for each session the "died" and "respawned" events alternate,
\* starting with "died", and every death is broadcast in exactly one
\* "playerDied" naming the victim, also when several bullets are in range of
\* the victim in the same call of gameLoop.
C19_DiedRespawnedAlternate == []C19_LifeInTick /\ [][C19_LifeStep]_vars

\* gameLoop is about to run with two bullets in range of a tank that one hit
\* kills
C19_Witness ==
    /\ TickReady
    /\ Len(bullets) = 2
    /\ \E i \in Tanks :
          /\ players[i].isAlive
          /\ players[i].hp <= BULLET_DAMAGE
          /\ \A k \in 1..2 :
                Moved(k).ret /\ Hits(players[i], Moved(k).bullet)

\* where tank p is, how fast it moves and where it heads
Pose(p) == <<p.x, p.y, p.vx, p.vy, p.angle, p.targetAngle>>

\* C20, every state: a dead tank has velocity (0, 0) and no move request
\* changes it; in the call of gameLoop that starts here, a tank that is dead
\* after the bullets have been resolved, whether it died in this call or
\* before, is left by the tank-vs-tank pass as it was.
C20_DeadAtRest ==
    /\ \A i \in Tanks :
          ~players[i].isAlive =>
              /\ players[i].vx = 0 /\ players[i].vy = 0
              /\ \A input \in MoveInputs :
                    applyInput(players[i], input) = players[i]
    /\ TickReady =>
          \A rs \in Respawns :
              LET ab == AfterBullets(players, bullets, TickDt, now, rs).players
                  after == PairLoop(ab, 1, 2)
              IN  \A i \in 1..Len(ab) :
                      ~ab[i].isAlive =>
                          /\ after[i] = ab[i]
                          /\ ab[i].vx = 0 /\ ab[i].vy = 0
                          /\ ~players[i].isAlive => Pose(ab[i]) = Pose(players[i])

\* C20, every step: a tank that is dead before and after the step has the
\* same position, velocity and heading after it as before.
C20_DeadStep ==
    \A i \in Tanks : \A j \in 1..Len(players') :
        /\ players[i].id = players'[j].id
        /\ ~players[i].isAlive
        /\ ~players'[j].isAlive
        => Pose(players'[j]) = Pose(players[i])

\* C20: from its death until its respawn a tank is frozen: its velocity is
\* (0, 0) and its position and heading do not change, whatever moves are
\* requested and whatever gameLoop does with bullets and other tanks.
C20_DeadIsFrozen == []C20_DeadAtRest /\ [][C20_DeadStep]_vars

\* gameLoop has run since a tank died turning and within TANK_RADIUS * 2 of
\* its killer, which is moving
C20_Witness ==
    \E i \in Tanks : \E k \in Tanks :
        /\ ~players[i].isAlive
        /\ lastUpdate > hist[players[i].id].diedAt
        /\ players[i].angle # players[i].targetAngle
        /\ players[k].isAlive
        /\ players[k].vx # 0
        /\ Dist2(players[i], players[k])
              < (2 * TANK_RADIUS) * (2 * TANK_RADIUS)

============================================================================
